---- MODULE Spec2Model ----
(***************************************************************************)
(* SpacePlan: the room-layout editor.  The model covers the App component  *)
(* (history, selection, projects, auto-save), the RoomCanvas component     *)
(* (drag / resize gestures, snapping, wall-distance dialog) and the        *)
(* Sidebar handlers that edit the selected item.                           *)
(*                                                                         *)
(* Lengths are integers in half-millimetres (mm(1) = 2), so that the       *)
(* centre x + width/2 of an item whose width is a whole number of          *)
(* millimetres is exact.  JavaScript objects have identity: an item is a   *)
(* reference into heap, a layout (FurnitureItem[]) is a sequence of        *)
(* references, and `{...item, f: v}` allocates a new object.               *)
(***************************************************************************)
EXTENDS Integers, Sequences, FiniteSets, TLC

mm(n) == 2 * n
Meter == mm(1000)

\* ---- bounds of the model ----
MaxObjs == 5        \* objects the heap may hold (initial items + allocations)
MaxGestures == 2    \* pointer gestures (drag or resize) in one behaviour
MaxSteps == 2       \* pointer-move events inside one gesture

\* ---- program constants ----
PIXELS_PER_METER == 80
SNAP_THRESHOLD_PX == 10
DEFAULT_ROOM_DIMS == [width |-> mm(4500), length |-> mm(5000)]
gridSnap == mm(50)
minSize == mm(100)
SNAP_THRESHOLD == (SNAP_THRESHOLD_PX * Meter) \div PIXELS_PER_METER
\* a pointer offset of n screen pixels, in room units (event.x / PIXELS_PER_METER)
px(n) == (n * Meter) \div PIXELS_PER_METER

\* the catalog: (width, depth) of each preset, in catalog order
FURNITURE_PRESETS ==
  << <<mm(500), mm(500)>>, <<mm(150), mm(150)>>, <<mm(400), mm(400)>>,
     <<mm(1000), mm(2000)>>, <<mm(1500), mm(2000)>>, <<mm(1200), mm(600)>>,
     <<mm(500), mm(500)>>, <<mm(2200), mm(900)>>, <<mm(1500), mm(600)>>,
     <<mm(1800), mm(900)>>, <<mm(900), mm(150)>> >>

VARIABLES
  heap,              \* Seq of item objects; a reference is an index
  history,           \* App: history, Seq of layouts (Seq of references)
  historyIndex,      \* App: historyIndex, 0-based
  selectedId,        \* App: selectedId, 0 = null
  dimensions,        \* App: dimensions
  projects,          \* useProjects: state.projects
  currentProjectId,  \* useProjects: state.currentProjectId
  saveTimer,         \* the pending auto-save timeout and what its closure holds
  gesture,           \* the d3 gesture in progress and what its listeners hold
  editModal,         \* RoomCanvas: editModal and what its onConfirm holds
  guides,            \* the lines of the guides layer
  nGestures,         \* pointer gestures so far (bounds the model)
  generating,        \* App: isGenerating and what the pending AI request holds
  track,             \* the last edit: the layout before and after it (observation only)
  op                 \* the handler that ran last (observation only)

vars == <<heap, history, historyIndex, selectedId, dimensions, projects,
          currentProjectId, saveTimer, gesture, editModal, guides, nGestures, generating,
          track, op>>

\* ---- helpers ----
Max(a, b) == IF a >= b THEN a ELSE b
Min(a, b) == IF a <= b THEN a ELSE b
Abs(a) == IF a < 0 THEN -a ELSE a
\* a % b of JavaScript for b > 0: the remainder has the sign of a
rem(a, b) == IF a >= 0 THEN a % b ELSE 0 - ((0 - a) % b)
\* a faulty variant of the rounding: the value is passed on as it is
noRound(v, g) == v
\* Math.round(v / g) * g : JavaScript rounds halves towards +Infinity
RoundTo(v, g) == ((2 * v + g) \div (2 * g)) * g

\* const items = history[historyIndex]
items == history[historyIndex + 1]
\* the value of a layout: its items' fields, in order
LayoutOf(h, arr) == [k \in 1..Len(arr) |-> h[arr[k]]]
current == LayoutOf(heap, items)
\* items.find(i => i.id === id): the reference, 0 when there is none
RECURSIVE FindFrom(_, _, _, _)
FindFrom(h, arr, id, k) ==
  IF k > Len(arr) THEN 0
  ELSE IF h[arr[k]].id = id THEN arr[k]
  ELSE FindFrom(h, arr, id, k + 1)
find(h, arr, id) == FindFrom(h, arr, id, 1)
\* items.map(i => i.id === id ? r : i)
MapReplace(h, arr, id, r) == [k \in 1..Len(arr) |-> IF h[arr[k]].id = id THEN r ELSE arr[k]]
\* items.filter(i => i.id !== id)
RECURSIVE FilterOut(_, _, _)
FilterOut(h, arr, id) ==
  IF arr = <<>> THEN <<>>
  ELSE IF h[Head(arr)].id = id THEN FilterOut(h, Tail(arr), id)
  ELSE <<Head(arr)>> \o FilterOut(h, Tail(arr), id)

\* ---- the text of an input field: a sequence of characters ----
Digits == <<"0", "1", "2", "3", "4", "5", "6", "7", "8", "9">>
IsDigit(ch) == \E n \in 1..10 : Digits[n] = ch
DigitOf(ch) == (CHOOSE n \in 1..10 : Digits[n] = ch) - 1
NaN == [nan |-> TRUE, val |-> 0]
\* the digits of t from place k on, up to the first character that is not a digit
RECURSIVE parseDigits(_, _, _, _)
parseDigits(t, k, acc, seen) ==
  IF k > Len(t) \/ ~IsDigit(t[k]) THEN (IF seen THEN [nan |-> FALSE, val |-> acc] ELSE NaN)
  ELSE parseDigits(t, k + 1, 10 * acc + DigitOf(t[k]), TRUE)
\* parseFloat(value) for texts without fraction or exponent: an optional sign and
\* the longest run of digits; NaN when there is no digit
parseFloat(t) ==
  IF t # <<>> /\ t[1] = "-"
  THEN LET r == parseDigits(t, 2, 0, FALSE) IN [nan |-> r.nan, val |-> 0 - r.val]
  ELSE parseDigits(t, 1, 0, FALSE)
isNaN(num) == num.nan

NoGesture == [kind |-> "none", d |-> 0, subjX |-> 0, subjY |-> 0, ex |-> 0, ey |-> 0,
              steps |-> 0,
              items |-> <<>>, history |-> <<>>, historyIndex |-> 0]
NoModal == [isOpen |-> FALSE, wall |-> "none", selectedItem |-> 0, selectedId |-> 0,
            items |-> <<>>, dimensions |-> DEFAULT_ROOM_DIMS,
            history |-> <<>>, historyIndex |-> 0]
NoTimer == [pending |-> FALSE, dimensions |-> DEFAULT_ROOM_DIMS, items |-> <<>>,
            projects |-> <<>>, currentProjectId |-> 0]
NoRequest == [pending |-> FALSE, history |-> <<>>, historyIndex |-> 0]
\* useEffect(..., [items, dimensions]): the timeout and what its closure captured
ScheduleSave(dims, its, projs, cur) ==
  [pending |-> TRUE, dimensions |-> dims, items |-> its, projects |-> projs,
   currentProjectId |-> cur]

\* ---- History Manager ----
\* nextHistory = history.slice(0, historyIndex + 1); nextHistory.push(newItems)
safePushHistory(h, idx, newItems) ==
  LET nextHistory == Append(SubSeq(h, 1, idx + 1), newItems)
  IN  [history |-> nextHistory, historyIndex |-> Len(nextHistory) - 1]

\* the projects hook: currentProject
ProjectIndex(projs, id) ==
  IF \E k \in 1..Len(projs) : projs[k].id = id
  THEN CHOOSE k \in 1..Len(projs) : projs[k].id = id /\ \A j \in 1..(k - 1) : projs[j].id # id
  ELSE 1
currentProjectOf(projs, id) == projs[ProjectIndex(projs, id)]

Idle == gesture.kind = "none"

\* ---- initial state: two stored projects, the first one open ----
ItemA == [id |-> 1, x |-> mm(1000), y |-> mm(1000), width |-> mm(1000),
          depth |-> mm(1000), rotation |-> 0, locked |-> FALSE]
ItemB(w, dep, rot, lk) ==
  [id |-> 2, x |-> mm(2500), y |-> mm(2800), width |-> w, depth |-> dep,
   rotation |-> rot, locked |-> lk]
ItemC == [id |-> 3, x |-> mm(2000), y |-> 0, width |-> mm(1000), depth |-> mm(1000),
          rotation |-> 0, locked |-> FALSE]
\* the sizes, rotations and lock states item B starts with
InitBs ==
  { ItemB(mm(150), mm(150), 0, FALSE), ItemB(mm(1200), mm(600), 0, FALSE),
    ItemB(mm(2200), mm(900), 90, FALSE), ItemB(mm(500), mm(500), 0, TRUE) }
InitProjects ==
  << [id |-> 1, name |-> "a", dimensions |-> DEFAULT_ROOM_DIMS, items |-> <<1, 2>>],
     [id |-> 2, name |-> "b", dimensions |-> [width |-> mm(3000), length |-> mm(3000)],
      items |-> <<3>>] >>

\* the editor after mount: the stored projects projs, the first one open
InitOf(heaps, projs) ==
  /\ heap \in heaps
  /\ projects = projs
  /\ currentProjectId = 1
  /\ dimensions = projs[1].dimensions
  /\ history = << projs[1].items >>
  /\ historyIndex = 0
  /\ selectedId = 0
  \* the auto-save effect also runs on mount
  /\ saveTimer = ScheduleSave(projs[1].dimensions, projs[1].items, projs, 1)
  /\ gesture = NoGesture
  /\ editModal = NoModal
  /\ guides = <<>>
  /\ nGestures = 0
  /\ generating = NoRequest
  /\ track = [pre |-> <<>>, post |-> <<>>, stage |-> 0]
  /\ op = "init"

InitFrom(bs) == InitOf({ <<ItemA, b, ItemC>> : b \in bs }, InitProjects)

Init == InitFrom(InitBs)

\* ---- observation of edits: no handler reads it ----
\* pre: the layout that was current when the last edit began; post: the layout
\* current when it ended; stage: 1 after an edit that changed the layout, 2 after
\* an undo that directly follows it, 3 after a redo that directly follows that
EditEnds == {"dragEnd", "resizeEnd", "confirm", "add", "delete"}
Observe ==
  LET now == LayoutOf(heap', history'[historyIndex' + 1])
      pre == IF op' \in {"drag", "resize", "dragEnd", "resizeEnd"} THEN track.pre
             ELSE current
  IN  track' =
        CASE op' \in {"dragStart", "resizeStart", "drag", "resize"} ->
               [pre |-> pre, post |-> <<>>, stage |-> 0]
          [] op' \in EditEnds ->
               IF now # pre THEN [pre |-> pre, post |-> now, stage |-> 1]
               ELSE [pre |-> <<>>, post |-> <<>>, stage |-> 0]
          [] op' = "undo" /\ track.stage = 1 -> [track EXCEPT !.stage = 2]
          [] op' = "redo" /\ track.stage = 2 -> [track EXCEPT !.stage = 3]
          [] OTHER -> [pre |-> <<>>, post |-> <<>>, stage |-> 0]

\* ---- App: edits that commit through safePushHistory of the current render ----
Commit(newHeap, newItems, sel, name) ==
  LET r == safePushHistory(history, historyIndex, newItems)
  IN  /\ heap' = newHeap
      /\ history' = r.history
      /\ historyIndex' = r.historyIndex
      /\ selectedId' = sel
      /\ saveTimer' = ScheduleSave(dimensions, newItems, projects, currentProjectId)
      /\ op' = name
      /\ UNCHANGED <<dimensions, projects, currentProjectId, gesture, editModal, guides, nGestures, generating>>

Skip(name) ==
  /\ op' = name
  /\ UNCHANGED <<heap, history, historyIndex, selectedId, dimensions, projects,
                 currentProjectId, saveTimer, gesture, editModal, guides, nGestures, generating>>

\* the presets the model adds
AddChoices == {8}

handleAddItem(p) ==
  /\ Idle
  /\ Len(heap) < MaxObjs
  /\ LET w == FURNITURE_PRESETS[p][1]
         dep == FURNITURE_PRESETS[p][2]
         newItem == [id |-> Len(heap) + 1,
                     x |-> dimensions.width \div 2 - w \div 2,
                     y |-> dimensions.length \div 2 - dep \div 2,
                     width |-> w, depth |-> dep, rotation |-> 0, locked |-> FALSE]
     IN  Commit(Append(heap, newItem), Append(items, Len(heap) + 1), newItem.id, "add")
  /\ Observe

\* Sidebar: the buttons and fields of the selected item
selectedItem == IF selectedId = 0 THEN 0 ELSE find(heap, items, selectedId)

handleDeleteItem ==
  /\ Idle
  /\ selectedItem # 0
  /\ Commit(heap, FilterOut(heap, items, selectedId), 0, "delete")
  /\ Observe

\* onUpdateItem({ ...selectedItem, [f]: v }) -> handleUpdateItem
handleUpdateItem(updatedItem, name) ==
  /\ Len(heap) < MaxObjs
  /\ Commit(Append(heap, updatedItem),
            MapReplace(heap, items, updatedItem.id, Len(heap) + 1), selectedId, name)

ToggleLock ==
  /\ Idle
  /\ selectedItem # 0
  /\ handleUpdateItem([heap[selectedItem] EXCEPT !.locked = ~@], "lock")
  /\ Observe

RotateItem ==
  /\ Idle
  /\ selectedItem # 0
  /\ ~heap[selectedItem].locked
  /\ handleUpdateItem([heap[selectedItem] EXCEPT !.rotation = rem(@ + 90, 360)], "rotate")
  /\ Observe

\* the texts typed into the rotation field, in degrees
RotationInputs == { <<>>, <<"a">>, <<"-", "9", "0">>, <<"4", "5">> }

\* onChange of the rotation field
rotationChange(val) ==
  /\ Idle
  /\ selectedItem # 0
  /\ ~heap[selectedItem].locked
  /\ IF val # <<>> /\ ~isNaN(parseFloat(val))
     THEN handleUpdateItem([heap[selectedItem] EXCEPT !.rotation = parseFloat(val).val],
                           "rotation")
     ELSE Skip("rotation")
  /\ Observe

\* onBlur of the rotation field
rotationBlur(val) ==
  /\ Idle
  /\ selectedItem # 0
  /\ ~heap[selectedItem].locked
  /\ IF val = <<>> \/ isNaN(parseFloat(val))
     THEN handleUpdateItem([heap[selectedItem] EXCEPT !.rotation = 0], "rotationBlur")
     ELSE Skip("rotationBlur")
  /\ Observe

\* the values typed into the width / depth fields, in millimetres
DimInputs == { <<"3", "0", "0", "0">> }

handleItemDimChange(field, val) ==
  /\ Idle
  /\ selectedItem # 0
  /\ ~heap[selectedItem].locked
  /\ LET num == parseFloat(val)
     IN  IF val # <<>> /\ ~isNaN(num) /\ num.val >= 0
         THEN handleUpdateItem(IF field = "width"
                               THEN [heap[selectedItem] EXCEPT !.width = mm(num.val)]
                               ELSE [heap[selectedItem] EXCEPT !.depth = mm(num.val)], "size")
         ELSE Skip("size")
  /\ Observe

\* ---- App: undo / redo ----
MoveCursor(idx, name) ==
  /\ historyIndex' = idx
  /\ saveTimer' = IF idx # historyIndex
                  THEN ScheduleSave(dimensions, history[idx + 1], projects, currentProjectId)
                  ELSE saveTimer
  /\ op' = name
  /\ UNCHANGED <<heap, history, selectedId, dimensions, projects, currentProjectId,
                 gesture, editModal, guides, nGestures, generating>>

\* a faulty variant of undo: it steps back two snapshots
undoIndexTwice(prev) == Max(0, prev - 2)
\* setHistoryIndex(prev => Math.max(0, prev - 1))
undoIndex(prev) == Max(0, prev - 1)
\* setHistoryIndex(prev => Math.min(history.length - 1, prev + 1))
redoIndex(h, prev) == Min(Len(h) - 1, prev + 1)

undo ==
  /\ Idle
  /\ MoveCursor(undoIndex(historyIndex), "undo")
  /\ Observe

redo ==
  /\ Idle
  /\ MoveCursor(redoIndex(history, historyIndex), "redo")
  /\ Observe

\* ---- App: arrow keys ----
\* the key presses of the model: e.key and e.shiftKey
ArrowKeys == { <<"ArrowLeft", FALSE>>, <<"ArrowRight", TRUE>>,
               <<"ArrowUp", FALSE>>, <<"ArrowDown", TRUE>> }
\* const step = e.shiftKey ? 0.1 : 0.01
nudgeStep(shift) == IF shift THEN mm(100) ELSE mm(10)
\* a faulty variant of the nudge: no guard at the right wall
nudgeXUnclamped(key, it, dims, step) ==
  CASE key = "ArrowLeft" -> Max(0, it.x - step)
    [] key = "ArrowRight" -> it.x + step
    [] OTHER -> it.x
\* the switch on e.key: the new position of selectedItem
nudgeX(key, it, dims, step) ==
  CASE key = "ArrowLeft" -> Max(0, it.x - step)
    [] key = "ArrowRight" -> Min(dims.width - it.width, it.x + step)
    [] OTHER -> it.x
nudgeY(key, it, dims, step) ==
  CASE key = "ArrowUp" -> Max(0, it.y - step)
    [] key = "ArrowDown" -> Min(dims.length - it.depth, it.y + step)
    [] OTHER -> it.y

handleKeyDown(key, shift) ==
  /\ Idle
  /\ IF selectedItem = 0 \/ (selectedItem # 0 /\ heap[selectedItem].locked)
     THEN Skip("nudge")
     ELSE LET it == heap[selectedItem]
              step == nudgeStep(shift)
              newX == nudgeX(key, it, dimensions, step)
              newY == nudgeY(key, it, dimensions, step)
              updatedItems == MapReplace(heap, items, selectedId, Len(heap) + 1)
          IN  /\ Len(heap) < MaxObjs
              /\ heap' = Append(heap, [it EXCEPT !.x = newX, !.y = newY])
              /\ history' = Append(SubSeq(history, 1, historyIndex + 1), updatedItems)
              /\ historyIndex' = historyIndex + 1
              /\ saveTimer' = ScheduleSave(dimensions, updatedItems, projects, currentProjectId)
              /\ op' = "nudge"
              /\ UNCHANGED <<selectedId, dimensions, projects, currentProjectId,
                             gesture, editModal, guides, nGestures, generating>>
  /\ Observe

\* ---- App: the effect that re-seeds the editor from the current project ----
\* useEffect(() => { setDimensions; setHistory([items]); setHistoryIndex(0);
\* setSelectedId(null) }, [currentProject.id, currentProject.updatedAt]);
\* the auto-save effect then runs again when items or dimensions changed
ResetEffect(projs, cur, forceTimer) ==
  LET cp == currentProjectOf(projs, cur)
  IN  /\ dimensions' = cp.dimensions
      /\ history' = << cp.items >>
      /\ historyIndex' = 0
      /\ selectedId' = 0
      /\ saveTimer' = IF forceTimer \/ cp.items # items \/ cp.dimensions # dimensions
                      THEN ScheduleSave(cp.dimensions, cp.items, projs, cur)
                      ELSE saveTimer

\* ---- useProjects ----
switchProject(pid) ==
  /\ Idle
  /\ pid # currentProjectId
  /\ currentProjectId' = pid
  /\ ResetEffect(projects, pid, TRUE)
  /\ op' = "switch"
  /\ UNCHANGED <<heap, projects, gesture, editModal, guides, nGestures, generating>>
  /\ Observe

\* the names the model gives a project
Names == {"c"}

\* renameProject(currentProject.id, newName): name and updatedAt change
renameProject(newName) ==
  /\ Idle
  /\ LET k == ProjectIndex(projects, currentProjectId)
         newProjects == [projects EXCEPT ![k].name = newName]
     IN  /\ projects' = newProjects
         /\ ResetEffect(newProjects, currentProjectId, FALSE)
  /\ op' = "rename"
  /\ UNCHANGED <<heap, currentProjectId, gesture, editModal, guides, nGestures, generating>>
  /\ Observe

\* updateCurrentProject({ dimensions, items }) as the timeout's closure holds it:
\* state.projects and currentProjectId are those of the render that set the timer
updateCurrentProject(t) ==
  [k \in 1..Len(t.projects) |->
     IF t.projects[k].id = t.currentProjectId
     THEN [t.projects[k] EXCEPT !.dimensions = t.dimensions, !.items = t.items]
     ELSE t.projects[k]]

\* the debounced auto-save fires: the project is written, its updatedAt changes,
\* and the re-seeding effect runs
AutoSave ==
  /\ Idle
  /\ saveTimer.pending
  /\ LET newProjects == updateCurrentProject(saveTimer)
         cp == currentProjectOf(newProjects, currentProjectId)
     IN  /\ projects' = newProjects
         /\ IF cp.id = saveTimer.currentProjectId
               \/ cp.id # currentProjectOf(projects, currentProjectId).id
            THEN /\ dimensions' = cp.dimensions
                 /\ history' = << cp.items >>
                 /\ historyIndex' = 0
                 /\ selectedId' = 0
                 /\ saveTimer' = IF cp.items # items \/ cp.dimensions # dimensions
                                 THEN ScheduleSave(cp.dimensions, cp.items, newProjects,
                                                   currentProjectId)
                                 ELSE NoTimer
            ELSE /\ saveTimer' = NoTimer
                 /\ UNCHANGED <<dimensions, history, historyIndex, selectedId>>
  /\ op' = "autosave"
  /\ UNCHANGED <<heap, currentProjectId, gesture, editModal, guides, nGestures, generating>>
  /\ Observe

\* ---- Sidebar: room width / length fields (millimetres) ----
RoomInputs == { <<"3", "0", "0", "0">> }

handleDimChange(val, field) ==
  /\ Idle
  /\ IF ~isNaN(parseFloat(val)) /\ parseFloat(val).val > 0
     THEN LET d == IF field = "width"
                   THEN [dimensions EXCEPT !.width = mm(parseFloat(val).val)]
                   ELSE [dimensions EXCEPT !.length = mm(parseFloat(val).val)]
          IN  /\ dimensions' = d
              /\ saveTimer' = ScheduleSave(d, items, projects, currentProjectId)
              /\ op' = "room"
              /\ UNCHANGED <<heap, history, historyIndex, selectedId, projects,
                             currentProjectId, gesture, editModal, guides, nGestures, generating>>
     ELSE Skip("room")
  /\ Observe

\* ---- RoomCanvas: geometry and snapping of one drag event ----
\* d.rotation % 180 !== 0
isRotated(it) == rem(it.rotation, 180) # 0
\* [left, centre, right] of a footprint that starts at pos
keyPoints(pos, size) == << pos, pos + size \div 2, pos + size >>

\* the double loop over active[i] and targets[j]: the first pairing with the
\* smallest |delta| (minDelta starts at Infinity, the test is strict)
RECURSIVE BestPair(_, _, _)
BestPair(active, targets, p) ==
  LET i == (p \div 3) + 1
      j == (p % 3) + 1
      delta == targets[j] - active[i]
      cand == [delta |-> delta, snapPos |-> targets[j]]
  IN  IF p = 0 THEN cand
      ELSE LET prev == BestPair(active, targets, p - 1)
           IN  IF Abs(delta) < Abs(prev.delta) THEN cand ELSE prev
minDelta(active, targets) == BestPair(active, targets, 8)

\* a faulty variant of the snap test: it never passes
snapsNever(delta) == FALSE
\* a faulty variant of the snap test: the threshold itself passes
snapsAtThreshold(delta) == Abs(delta) <= SNAP_THRESHOLD
\* if (Math.abs(minDeltaX) < SNAP_THRESHOLD)
snapsWithin(delta) == Abs(delta) < SNAP_THRESHOLD

\* a faulty variant of the early exit: it leaves the loop after the first snap
eitherSnapped(st) == st.snappedX \/ st.snappedY
\* if (snappedX && snappedY) break
bothSnapped(st) == st.snappedX /\ st.snappedY

\* a faulty variant of the guard: an axis that has snapped is searched again
notYetNever(snapped) == TRUE
\* if (!snappedX) / if (!snappedY): an axis is searched until it has snapped
notYet(snapped) == ~snapped

\* for (const other of items) { ... }: c holds what the loop reads,
\* st what it updates (newX, newY, snappedX, snappedY, guides)
RECURSIVE siblingLoop(_, _, _)
siblingLoop(c, k, st) ==
  IF k > Len(c.items) \/ bothSnapped(st) THEN st
  ELSE LET other == c.heap[c.items[k]]
       IN  IF other.id = c.id THEN siblingLoop(c, k + 1, st)
           ELSE LET otherW == IF isRotated(other) THEN other.depth ELSE other.width
                    otherH == IF isRotated(other) THEN other.width ELSE other.depth
                    bx == minDelta(c.activeX, keyPoints(other.x, otherW))
                    by == minDelta(c.activeY, keyPoints(other.y, otherH))
                    st1 == IF notYet(st.snappedX) /\ snapsWithin(bx.delta)
                           THEN [st EXCEPT !.newX = @ + bx.delta, !.snappedX = TRUE,
                                           !.guides = Append(@,
                                              [x1 |-> bx.snapPos, y1 |-> 0,
                                               x2 |-> bx.snapPos, y2 |-> c.dimensions.length])]
                           ELSE st
                    st2 == IF notYet(st1.snappedY) /\ snapsWithin(by.delta)
                           THEN [st1 EXCEPT !.newY = @ + by.delta, !.snappedY = TRUE,
                                            !.guides = Append(@,
                                               [x1 |-> 0, y1 |-> by.snapPos,
                                                x2 |-> c.dimensions.width, y2 |-> by.snapPos])]
                           ELSE st1
                IN  siblingLoop(c, k + 1, st2)

\* 4. Boundary Check: effectiveWidth = isRotated ? currentDepth : currentWidth,
\* where currentWidth = isRotated ? d.depth : d.width was swapped already
boundsWidth(d) ==
  LET currentWidth == IF isRotated(d) THEN d.depth ELSE d.width
      currentDepth == IF isRotated(d) THEN d.width ELSE d.depth
  IN  IF isRotated(d) THEN currentDepth ELSE currentWidth
boundsDepth(d) ==
  LET currentWidth == IF isRotated(d) THEN d.depth ELSE d.width
      currentDepth == IF isRotated(d) THEN d.width ELSE d.depth
  IN  IF isRotated(d) THEN currentWidth ELSE currentDepth
\* a faulty variant of the clamp: the lower bound is not applied
clampNoFloor(v, lo, hi) == Min(v, hi)
\* a faulty variant of the clamp: it stops one unit short of the value
clampShort(v, lo, hi) == Max(lo, Min(v, hi) - 1)
\* Math.max(min, Math.min(v, max))
clamp(v, lo, hi) == Max(lo, Min(v, hi))

\* the body of dragBehavior.on('drag') for an unlocked datum d: the pointer is at
\* (ex, ey) room units; the result is the staged position and the guides drawn
dragEvent(h, its, dims, d, ex, ey) ==
  LET currentWidth == IF isRotated(d) THEN d.depth ELSE d.width
      currentDepth == IF isRotated(d) THEN d.width ELSE d.depth
      gx == RoundTo(ex, gridSnap)
      gy == RoundTo(ey, gridSnap)
      c == [heap |-> h, items |-> its, id |-> d.id, dimensions |-> dims,
            activeX |-> keyPoints(gx, currentWidth),
            activeY |-> keyPoints(gy, currentDepth)]
      st == siblingLoop(c, 1, [newX |-> gx, newY |-> gy, snappedX |-> FALSE,
                               snappedY |-> FALSE, guides |-> <<>>])
  IN  [x |-> clamp(st.newX, 0, dims.width - boundsWidth(d)),
       y |-> clamp(st.newY, 0, dims.length - boundsDepth(d)),
       guides |-> st.guides]

\* ---- RoomCanvas: the drag gesture ----
\* a gesture's events are consecutive: the pointer is captured from start to end
StartGesture(kind, r, sx, sy) ==
  [kind |-> kind, d |-> r, subjX |-> sx, subjY |-> sy, ex |-> sx, ey |-> sy, steps |-> 0,
   items |-> items, history |-> history, historyIndex |-> historyIndex]

InItems(r) == \E k \in 1..Len(items) : items[k] = r

\* a faulty variant of the start listener: it clears the selection
onSelectNone(h, r) == 0
\* onSelect(d.id) -> setSelectedId: the selection after the start listener
onSelect(h, r) == h[r].id

dragStart(r) ==
  /\ Idle
  /\ ~editModal.isOpen
  /\ nGestures < MaxGestures
  /\ InItems(r)
  /\ selectedId' = onSelect(heap, r)
  /\ gesture' = StartGesture("drag", r, heap[r].x, heap[r].y)
  /\ nGestures' = nGestures + 1
  /\ op' = "dragStart"
  /\ UNCHANGED <<heap, history, historyIndex, dimensions, projects, currentProjectId,
                 saveTimer, editModal, guides, generating>>
  /\ Observe

\* a faulty variant of the lock check: every item may be moved
lockLogicOff(d) == FALSE
\* if (d.locked) return; // LOCK LOGIC
lockLogic(d) == d.locked

\* pointer offsets from the gesture's start, in screen pixels
DragDeltas == { <<-36, 0>>, <<-44, 0>>, <<-40, -60>>, <<0, 400>> }

dragStep(dx, dy) ==
  /\ gesture.kind = "drag"
  /\ gesture.steps < MaxSteps
  /\ gesture' = [gesture EXCEPT !.steps = @ + 1, !.ex = gesture.subjX + px(dx),
                                 !.ey = gesture.subjY + px(dy)]
  /\ op' = "drag"
  /\ IF lockLogic(heap[gesture.d])
     THEN UNCHANGED <<heap, guides>>
     ELSE LET res == dragEvent(heap, gesture.items, dimensions, heap[gesture.d],
                               gesture.subjX + px(dx), gesture.subjY + px(dy))
          IN  /\ heap' = [heap EXCEPT ![gesture.d].x = res.x, ![gesture.d].y = res.y]
              /\ guides' = res.guides
  /\ UNCHANGED <<history, historyIndex, selectedId, dimensions, projects,
                 currentProjectId, saveTimer, editModal, nGestures, generating>>
  /\ Observe

\* onItemsChange(updated) as the gesture's listeners hold it: handleItemsChange ->
\* safePushHistory with the history and historyIndex of the render they came from
handleItemsChange(g, newHeap, updated, name) ==
  LET r == safePushHistory(g.history, g.historyIndex, updated)
  IN  /\ heap' = newHeap
      /\ history' = r.history
      /\ historyIndex' = r.historyIndex
      /\ saveTimer' = ScheduleSave(dimensions, updated, projects, currentProjectId)
      /\ op' = name

\* const item = items.find(i => i.id === d.id);
\* if (item && (item.x !== d.x || item.y !== d.y)) onItemsChange(...)
dragMoved(h, its, r) ==
  LET item == find(h, its, h[r].id)
  IN  item # 0 /\ (h[item].x # h[r].x \/ h[item].y # h[r].y)

\* a faulty variant of the clearing: the lines are left in the layer
removeNone(gs) == gs
\* guidesLayer.selectAll('*').remove()
removeAll(gs) == <<>>

dragEnd ==
  /\ gesture.kind = "drag"
  /\ guides' = removeAll(guides)
  /\ gesture' = NoGesture
  /\ IF dragMoved(heap, gesture.items, gesture.d)
     THEN LET d == heap[gesture.d]
              item == heap[find(heap, gesture.items, d.id)]
          IN  /\ Len(heap) < MaxObjs
              /\ handleItemsChange(gesture,
                    Append(heap, [item EXCEPT !.x = d.x, !.y = d.y]),
                    MapReplace(heap, gesture.items, d.id, Len(heap) + 1), "dragEnd")
     ELSE /\ op' = "dragEnd"
          /\ UNCHANGED <<heap, history, historyIndex, saveTimer>>
  /\ UNCHANGED <<selectedId, dimensions, projects, currentProjectId, editModal, nGestures, generating>>
  /\ Observe

\* ---- RoomCanvas: the resize gesture ----
\* the handle exists for the selected item while it is not locked
resizeStart(r) ==
  /\ Idle
  /\ ~editModal.isOpen
  /\ nGestures < MaxGestures
  /\ r # 0 /\ r = selectedItem
  /\ ~heap[r].locked
  /\ gesture' = StartGesture("resize", r, heap[r].width, heap[r].depth)
  /\ nGestures' = nGestures + 1
  /\ op' = "resizeStart"
  /\ UNCHANGED <<heap, history, historyIndex, selectedId, dimensions, projects,
                 currentProjectId, saveTimer, editModal, guides, generating>>
  /\ Observe

\* a faulty variant of the resize: the size is not floored at the minimum
resizeEventNoFloor(e) == RoundTo(e, gridSnap)
\* newWidth = Math.max(0.1, event.x / PIXELS_PER_METER), then the 0.05 grid
resizeEvent(e) == RoundTo(Max(minSize, e), gridSnap)

ResizeDeltas == { <<0, 0>>, <<200, -400>> }

resizeStep(dx, dy) ==
  /\ gesture.kind = "resize"
  /\ gesture.steps < MaxSteps
  /\ gesture' = [gesture EXCEPT !.steps = @ + 1, !.ex = gesture.subjX + px(dx),
                                 !.ey = gesture.subjY + px(dy)]
  /\ op' = "resize"
  /\ IF heap[gesture.d].locked
     THEN UNCHANGED heap
     ELSE heap' = [heap EXCEPT ![gesture.d].width = resizeEvent(gesture.subjX + px(dx)),
                               ![gesture.d].depth = resizeEvent(gesture.subjY + px(dy))]
  /\ UNCHANGED <<history, historyIndex, selectedId, dimensions, projects,
                 currentProjectId, saveTimer, editModal, guides, nGestures, generating>>
  /\ Observe

resizeEnd ==
  /\ gesture.kind = "resize"
  /\ Len(heap) < MaxObjs
  /\ gesture' = NoGesture
  /\ LET d == heap[gesture.d]
         item == heap[find(heap, gesture.items, d.id)]
     IN  handleItemsChange(gesture,
            Append(heap, [item EXCEPT !.width = d.width, !.depth = d.depth]),
            MapReplace(heap, gesture.items, d.id, Len(heap) + 1), "resizeEnd")
  /\ UNCHANGED <<selectedId, dimensions, projects, currentProjectId, editModal,
                 guides, nGestures, generating>>
  /\ Observe

\* ---- RoomCanvas: the wall-distance labels and the edit dialog ----
Walls == {"left", "bottom"}

\* click on a wall-distance label of the selected item
wallClick(wall) ==
  /\ Idle
  /\ ~editModal.isOpen
  /\ selectedItem # 0
  /\ IF heap[selectedItem].locked
     THEN Skip("wallClick")
     ELSE /\ editModal' = [isOpen |-> TRUE, wall |-> wall, selectedItem |-> selectedItem,
                           selectedId |-> selectedId, items |-> items,
                           dimensions |-> dimensions, history |-> history,
                           historyIndex |-> historyIndex]
          /\ op' = "wallClick"
          /\ UNCHANGED <<heap, history, historyIndex, selectedId, dimensions, projects,
                         currentProjectId, saveTimer, gesture, guides, nGestures, generating>>
  /\ Observe

\* onConfirm(newVal) of the dialog, as the closure made by the click holds it
wallPosition(m, it, newVal) ==
  LET x0 == CASE m.wall = "left" -> newVal
              [] m.wall = "right" -> m.dimensions.width - it.width - newVal
              [] OTHER -> it.x
      y0 == CASE m.wall = "top" -> newVal
              [] m.wall = "bottom" -> m.dimensions.length - it.depth - newVal
              [] OTHER -> it.y
  IN  [x |-> clamp(x0, 0, m.dimensions.width - it.width),
       y |-> clamp(y0, 0, m.dimensions.length - it.depth)]

\* the values typed into the dialog, in millimetres
WallInputs == { <<"-", "1", "0", "0">>, <<"5", "0", "0">> }

\* click on the room-width or room-length label of the canvas
roomClick(field) ==
  /\ Idle
  /\ ~editModal.isOpen
  /\ editModal' = [isOpen |-> TRUE, wall |-> field, selectedItem |-> 0,
                   selectedId |-> selectedId, items |-> items,
                   dimensions |-> dimensions, history |-> history,
                   historyIndex |-> historyIndex]
  /\ op' = "roomClick"
  /\ UNCHANGED <<heap, history, historyIndex, selectedId, dimensions, projects,
                 currentProjectId, saveTimer, gesture, guides, nGestures, generating>>
  /\ Observe

\* onConfirm of a room label: onDimensionsChange({ ...dimensions, [field]: val })
\* with the dimensions of the render that was clicked; the dialog is left open
roomConfirm(m, val) ==
  LET d == IF m.wall = "width" THEN [m.dimensions EXCEPT !.width = val]
           ELSE [m.dimensions EXCEPT !.length = val]
  IN  /\ dimensions' = d
      /\ saveTimer' = ScheduleSave(d, items, projects, currentProjectId)
      /\ op' = "confirmRoom"
      /\ UNCHANGED <<heap, history, historyIndex, selectedId, projects, currentProjectId,
                     gesture, editModal, guides, nGestures, generating>>

\* EditModal.handleConfirm with the field holding the text value
handleConfirm(value) ==
  /\ Idle
  /\ editModal.isOpen
  /\ LET num == parseFloat(value)
         m == editModal
     IN  IF isNaN(num) \/ num.val < 0
         THEN Skip(IF m.wall \in {"width", "length"} THEN "confirmRoom" ELSE "confirm")
         ELSE IF m.wall \in {"width", "length"}
         THEN roomConfirm(m, mm(num.val))
         ELSE LET pos == wallPosition(m, heap[m.selectedItem], mm(num.val))
                  old == heap[find(heap, m.items, m.selectedId)]
              IN  /\ Len(heap) < MaxObjs
                  /\ handleItemsChange(m,
                        Append(heap, [old EXCEPT !.x = pos.x, !.y = pos.y]),
                        MapReplace(heap, m.items, m.selectedId, Len(heap) + 1), "confirm")
                  /\ editModal' = NoModal
                  /\ UNCHANGED <<selectedId, dimensions, projects, currentProjectId, gesture,
                                 guides, nGestures, generating>>
  /\ Observe

onClose ==
  /\ Idle
  /\ editModal.isOpen
  /\ editModal' = NoModal
  /\ op' = "close"
  /\ UNCHANGED <<heap, history, historyIndex, selectedId, dimensions, projects,
                 currentProjectId, saveTimer, gesture, guides, nGestures, generating>>
  /\ Observe

\* ---- RoomCanvas: a click on the empty canvas ----
\* if (e.target === e.currentTarget || tagName === 'svg') onSelect(null)
canvasClick ==
  /\ Idle
  /\ ~editModal.isOpen
  /\ selectedId' = 0
  /\ op' = "canvasClick"
  /\ UNCHANGED <<heap, history, historyIndex, dimensions, projects, currentProjectId,
                 saveTimer, gesture, editModal, guides, nGestures, generating>>
  /\ Observe

\* ---- App: the AI layout ----
\* what the service answers: nothing, or raw items (position and size in the
\* units of the model); generateLayoutSuggestion gives each a fresh id
Suggestions == { <<>>, << [x |-> mm(500), y |-> mm(500), width |-> mm(1000),
                           depth |-> mm(500), rotation |-> 0] >> }
\* rawItems.map(item => ({ ...item, id: crypto.randomUUID(), color }))
generateLayoutSuggestion(h, raw) ==
  [k \in 1..Len(raw) |->
     [id |-> Len(h) + k, x |-> raw[k].x, y |-> raw[k].y, width |-> raw[k].width,
      depth |-> raw[k].depth, rotation |-> raw[k].rotation, locked |-> FALSE]]

\* handleGenerateAI up to its await: the request leaves, and the call keeps the
\* safePushHistory of the render that started it
generateStart ==
  /\ Idle
  /\ ~generating.pending
  /\ generating' = [pending |-> TRUE, history |-> history, historyIndex |-> historyIndex]
  /\ op' = "generate"
  /\ UNCHANGED <<heap, history, historyIndex, selectedId, dimensions, projects,
                 currentProjectId, saveTimer, gesture, editModal, guides, nGestures>>
  /\ Observe

\* handleGenerateAI after its await: a non-empty answer replaces the layout and
\* clears the selection, an empty one only reports an error
generateDone(raw) ==
  /\ Idle
  /\ generating.pending
  /\ generating' = NoRequest
  /\ op' = "generated"
  /\ LET suggestedItems == generateLayoutSuggestion(heap, raw)
         r == safePushHistory(generating.history, generating.historyIndex,
                              [k \in 1..Len(raw) |-> Len(heap) + k])
     IN  IF Len(suggestedItems) > 0
         THEN /\ Len(heap) + Len(raw) <= MaxObjs
              /\ heap' = heap \o suggestedItems
              /\ history' = r.history
              /\ historyIndex' = r.historyIndex
              /\ selectedId' = 0
              /\ saveTimer' = ScheduleSave(dimensions, r.history[r.historyIndex + 1],
                                           projects, currentProjectId)
         ELSE UNCHANGED <<heap, history, historyIndex, selectedId, saveTimer>>
  /\ UNCHANGED <<dimensions, projects, currentProjectId, gesture, editModal, guides,
                 nGestures>>
  /\ Observe

\* ---- the program ----
Next ==
  \/ \E p \in AddChoices : handleAddItem(p)
  \/ handleDeleteItem
  \/ ToggleLock
  \/ RotateItem
  \/ \E v \in RotationInputs : rotationChange(v)
  \/ \E v \in RotationInputs : rotationBlur(v)
  \/ \E f \in {"width", "depth"}, v \in DimInputs : handleItemDimChange(f, v)
  \/ undo
  \/ redo
  \/ \E k \in ArrowKeys : handleKeyDown(k[1], k[2])
  \/ \E pid \in {1, 2} : switchProject(pid)
  \/ \E n \in Names : renameProject(n)
  \/ AutoSave
  \/ \E f \in {"width", "length"}, v \in RoomInputs : handleDimChange(v, f)
  \/ \E r \in 1..Len(heap) : dragStart(r)
  \/ \E dl \in DragDeltas : dragStep(dl[1], dl[2])
  \/ dragEnd
  \/ \E r \in 1..Len(heap) : resizeStart(r)
  \/ \E dl \in ResizeDeltas : resizeStep(dl[1], dl[2])
  \/ resizeEnd
  \/ \E w \in Walls : wallClick(w)
  \/ \E f \in {"width", "length"} : roomClick(f)
  \/ \E v \in WallInputs : handleConfirm(v)
  \/ onClose
  \/ canvasClick
  \/ generateStart
  \/ \E raw \in Suggestions : generateDone(raw)

Spec == Init /\ [][Next]_vars

\* ---- the parts of the program that are model-checked ----
\* the pointer gestures of the canvas, undo / redo
NextGestures ==
  \/ \E r \in 1..Len(heap) : dragStart(r)
  \/ \E dl \in DragDeltas : dragStep(dl[1], dl[2])
  \/ dragEnd
  \/ \E r \in 1..Len(heap) : resizeStart(r)
  \/ \E dl \in ResizeDeltas : resizeStep(dl[1], dl[2])
  \/ resizeEnd
  \/ undo
  \/ redo

SpecGestures == Init /\ [][NextGestures]_vars

\* the canvas: pointer gestures, the wall-distance dialog, the lock button, undo / redo
NextCanvas ==
  \/ \E r \in 1..Len(heap) : dragStart(r)
  \/ \E dl \in DragDeltas : dragStep(dl[1], dl[2])
  \/ dragEnd
  \/ \E r \in 1..Len(heap) : resizeStart(r)
  \/ \E dl \in ResizeDeltas : resizeStep(dl[1], dl[2])
  \/ resizeEnd
  \/ ToggleLock
  \/ \E w \in Walls : wallClick(w)
  \/ \E v \in WallInputs : handleConfirm(v)
  \/ onClose
  \/ undo
  \/ redo

SpecCanvas == Init /\ [][NextCanvas]_vars

\* the editor: sidebar and keyboard edits of the item selected by a click, project switch
NextEditor ==
  \/ \E r \in 1..Len(heap) : dragStart(r)
  \/ dragEnd
  \/ \E p \in AddChoices : handleAddItem(p)
  \/ handleDeleteItem
  \/ ToggleLock
  \/ RotateItem
  \/ \E f \in {"width", "depth"}, v \in DimInputs : handleItemDimChange(f, v)
  \/ \E k \in ArrowKeys : handleKeyDown(k[1], k[2])
  \/ \E pid \in {1, 2} : switchProject(pid)
  \/ undo
  \/ redo

SpecEditor == Init /\ [][NextEditor]_vars

\* the projects: auto-save, rename, room size and project switch, with edits to save
NextProjects ==
  \/ \E p \in AddChoices : handleAddItem(p)
  \/ handleDeleteItem
  \/ undo
  \/ redo
  \/ \E pid \in {1, 2} : switchProject(pid)
  \/ \E n \in Names : renameProject(n)
  \/ AutoSave
  \/ \E f \in {"width", "length"}, v \in RoomInputs : handleDimChange(v, f)

SpecProjects == Init /\ [][NextProjects]_vars

\* the snap engine: drags in a room with three items.  The 0.15 m lamp stands
\* where handleAddItem puts that preset in the default room (x = 2.25 - 0.075),
\* so its key points are off the 0.05 m grid
ItemL == [id |-> 3, x |-> mm(2175), y |-> mm(2425), width |-> mm(150), depth |-> mm(150),
          rotation |-> 0, locked |-> FALSE]
SnapProjects ==
  << [id |-> 1, name |-> "a", dimensions |-> DEFAULT_ROOM_DIMS, items |-> <<1, 2, 3>>],
     [id |-> 2, name |-> "b", dimensions |-> [width |-> mm(3000), length |-> mm(3000)],
      items |-> <<>>] >>
InitSnap ==
  InitOf({ <<ItemA, ItemB(mm(1200), mm(600), 0, FALSE), ItemL>>,
           <<ItemA, ItemB(mm(2200), mm(900), 90, FALSE), ItemL>> }, SnapProjects)
\* pointer offsets from the gesture's start, in screen pixels
SnapDeltas == { <<4, 0>>, <<8, 0>>, <<-36, -12>> }

NextSnap ==
  \/ \E r \in 1..Len(heap) : dragStart(r)
  \/ \E dl \in SnapDeltas : dragStep(dl[1], dl[2])
  \/ dragEnd

SpecSnap == InitSnap /\ [][NextSnap]_vars

\* the edit fields: the dialogs of the canvas and the fields of the sidebar, with
\* texts that are empty, not a number, negative and positive
FieldTexts == { <<>>, <<"a">>, <<"-", "5", "0">>, <<"5", "0", "0">> }
InitFields == InitFrom({ ItemB(mm(2200), mm(900), 90, FALSE) })

NextFields ==
  \/ \E r \in 1..Len(heap) : dragStart(r)
  \/ dragEnd
  \/ \E f \in {"width", "depth"}, v \in FieldTexts : handleItemDimChange(f, v)
  \/ \E v \in RotationInputs : rotationChange(v)
  \/ \E v \in RotationInputs : rotationBlur(v)
  \/ \E f \in {"width", "length"}, v \in FieldTexts : handleDimChange(v, f)
  \/ \E w \in Walls : wallClick(w)
  \/ \E f \in {"width", "length"} : roomClick(f)
  \/ \E v \in FieldTexts : handleConfirm(v)
  \/ onClose

SpecFields == InitFields /\ [][NextFields]_vars

\* the sizes of items: every preset of the catalog, the resize handle and the
\* width / depth fields of the sidebar
SizeTexts == { <<"0">>, <<"5">>, <<"5", "0", "0">> }

NextSizes ==
  \/ \E r \in 1..Len(heap) : dragStart(r)
  \/ dragEnd
  \/ \E p \in 1..Len(FURNITURE_PRESETS) : handleAddItem(p)
  \/ \E r \in 1..Len(heap) : resizeStart(r)
  \/ \E dl \in ResizeDeltas : resizeStep(dl[1], dl[2])
  \/ resizeEnd
  \/ \E f \in {"width", "depth"}, v \in SizeTexts : handleItemDimChange(f, v)

SpecSizes == Init /\ [][NextSizes]_vars

\* the size of the room: the width / length fields of the sidebar and the
\* dimension labels of the canvas with their dialog
RoomTexts == { <<"-", "5", "0">>, <<"0">>, <<"5", "0", "0">>, <<"3", "0", "0", "0">> }

NextRoom ==
  \/ \E f \in {"width", "length"}, v \in RoomTexts : handleDimChange(v, f)
  \/ \E f \in {"width", "length"} : roomClick(f)
  \/ \E v \in RoomTexts : handleConfirm(v)
  \/ onClose

SpecRoom == Init /\ [][NextRoom]_vars

\* the boundary clamp: drags and wall-distance edits in a 3 x 3 m room and in the
\* default room, with an item in the corner and an item 3.5 m wide
Item0 == [id |-> 1, x |-> 0, y |-> 0, width |-> mm(1000), depth |-> mm(1000),
          rotation |-> 0, locked |-> FALSE]
ItemWide == [id |-> 2, x |-> 0, y |-> mm(1500), width |-> mm(3500), depth |-> mm(500),
             rotation |-> 0, locked |-> FALSE]
ClampProjects(dims) ==
  << [id |-> 1, name |-> "a", dimensions |-> dims, items |-> <<1, 2>>], InitProjects[2] >>
InitClamp ==
  \/ InitOf({ <<Item0, ItemWide, ItemC>> },
            ClampProjects([width |-> mm(3000), length |-> mm(3000)]))
  \/ InitOf({ <<Item0, ItemWide, ItemC>> }, ClampProjects(DEFAULT_ROOM_DIMS))
\* pointer offsets from the gesture's start, in screen pixels
ClampDeltas == { <<-40, -40>>, <<40, 0>>, <<200, 200>> }
ClampTexts == { <<"0">>, <<"5", "0", "0">>, <<"5", "0", "0", "0">> }
AllWalls == {"top", "bottom", "left", "right"}

NextClamp ==
  \/ \E r \in 1..Len(heap) : dragStart(r)
  \/ \E dl \in ClampDeltas : dragStep(dl[1], dl[2])
  \/ dragEnd
  \/ \E w \in AllWalls : wallClick(w)
  \/ \E v \in ClampTexts : handleConfirm(v)
  \/ onClose

SpecClamp == InitClamp /\ [][NextClamp]_vars

\* the arrow keys: nudges of the item selected by a click, after the lock button
\* and the width / depth fields of the sidebar, with undo / redo
NudgeTexts == { <<"5", "0", "0", "0">> }

NextNudge ==
  \/ \E r \in 1..Len(heap) : dragStart(r)
  \/ dragEnd
  \/ ToggleLock
  \/ \E f \in {"width", "depth"}, v \in NudgeTexts : handleItemDimChange(f, v)
  \/ \E k \in ArrowKeys : handleKeyDown(k[1], k[2])
  \/ undo
  \/ redo

SpecNudge == Init /\ [][NextNudge]_vars

\* the order of the sibling search: item 2 is as wide and deep as item 1, and the
\* lamp, later in the list, stands nearer to some candidates than item 1 does
InitOrder ==
  InitOf({ <<ItemA, ItemB(mm(1000), mm(1000), 0, FALSE), ItemL>> }, SnapProjects)
\* pointer offsets from the gesture's start, in screen pixels
OrderDeltas == { <<-32, 0>>, <<-116, 0>>, <<-36, -12>>, <<0, -148>> }

NextOrder ==
  \/ \E r \in 1..Len(heap) : dragStart(r)
  \/ \E dl \in OrderDeltas : dragStep(dl[1], dl[2])
  \/ dragEnd

SpecOrder == InitOrder /\ [][NextOrder]_vars

\* the grid: drags of the three items of the snap room by pointer offsets that
\* put the candidate off the 0.05 m grid
GridDeltas == { <<5, 0>>, <<8, 0>>, <<3, -2>>, <<-36, -12>> }

NextGrid ==
  \/ \E r \in 1..Len(heap) : dragStart(r)
  \/ \E dl \in GridDeltas : dragStep(dl[1], dl[2])
  \/ dragEnd

SpecGrid == InitSnap /\ [][NextGrid]_vars

\* the resize handle of the item selected by a click, with pointer offsets that
\* put the pointer off the grid, at zero or below, and beyond the room
HandleDeltas == { <<0, 0>>, <<3, -400>>, <<-1000, 5>>, <<200, 0>>, <<41, -3>> }

NextResize ==
  \/ \E r \in 1..Len(heap) : dragStart(r)
  \/ dragEnd
  \/ \E r \in 1..Len(heap) : resizeStart(r)
  \/ \E dl \in HandleDeltas : resizeStep(dl[1], dl[2])
  \/ resizeEnd

SpecResize == Init /\ [][NextResize]_vars

\* the selection: add / delete, drag start, canvas click, undo / redo, the AI
\* layout, project switch
NextSelection ==
  \/ \E p \in AddChoices : handleAddItem(p)
  \/ handleDeleteItem
  \/ \E r \in 1..Len(heap) : dragStart(r)
  \/ dragEnd
  \/ canvasClick
  \/ undo
  \/ redo
  \/ generateStart
  \/ \E raw \in Suggestions : generateDone(raw)
  \/ \E pid \in {1, 2} : switchProject(pid)

InitSelection == InitFrom({ ItemB(mm(1200), mm(600), 0, FALSE) })
SpecSelection == InitSelection /\ [][NextSelection]_vars

\* ---- vocabulary of the properties ----
\* the footprint of an item after rotation
effectiveWidth(it) == IF it.rotation % 180 # 0 THEN it.depth ELSE it.width
effectiveDepth(it) == IF it.rotation % 180 # 0 THEN it.width ELSE it.depth
Inside(it, dims) ==
  /\ 0 <= it.x /\ it.x + effectiveWidth(it) <= dims.width
  /\ 0 <= it.y /\ it.y + effectiveDepth(it) <= dims.length
AllInside(layout, dims) == \A k \in 1..Len(layout) : Inside(layout[k], dims)
\* the step changed snapshots or cursor
Committed == <<history', historyIndex'>> # <<history, historyIndex>>
GestureOps == {"dragStart", "drag", "dragEnd", "resizeStart", "resize", "resizeEnd"}

\* ---- C1 ----
\* C1, as stated: a drag step and a resize step leave the item fields of every
\* stored snapshot unchanged
C1_StepsLeaveSnapshots ==
  [][op' \in {"drag", "resize"} =>
       \A k \in 1..Len(history) :
          LayoutOf(heap', history[k]) = LayoutOf(heap, history[k])]_vars

\* ---- C2 ----
\* C2, as stated: an edit that changes the layout L, followed by undo, makes
\* current() equal to L, and a following redo makes it equal to the edited layout
C2_UndoRestores ==
  /\ track.stage = 2 => current = track.pre
  /\ track.stage = 3 => current = track.post

\* ---- C3 ----
CommitOps == {"add", "delete", "lock", "rotate", "size", "nudge", "dragEnd",
              "resizeEnd", "confirm"}
\* C3, as stated: a commit yields the old snapshots up to the old cursor followed
\* by the committed layout, with the cursor on the last snapshot
C3_CommitTruncatesAndAppends ==
  [][(op' \in CommitOps /\ Committed) =>
       /\ history' = Append(SubSeq(history, 1, historyIndex + 1), history'[Len(history')])
       /\ historyIndex' = Len(history') - 1]_vars

\* ---- C4 ----
HistoryInv ==
  /\ Len(history) >= 1
  /\ 0 <= historyIndex
  /\ historyIndex <= Len(history) - 1
UndoRedoStep ==
  /\ op' = "undo" =>
       /\ history' = history /\ heap' = heap
       /\ historyIndex' = IF historyIndex = 0 THEN 0 ELSE historyIndex - 1
  /\ op' = "redo" =>
       /\ history' = history /\ heap' = heap
       /\ historyIndex' = IF historyIndex = Len(history) - 1 THEN historyIndex
                          ELSE historyIndex + 1
\* C4: snapshots is never empty and the cursor stays within it; undo at cursor 0
\* and redo at the last snapshot change nothing, otherwise they move the cursor
\* by exactly one and leave the snapshots alone
C4_CursorInBounds == []HistoryInv /\ [][UndoRedoStep]_vars
\* an undo arrived at the first of three snapshots
C4_UndoToStart == op = "undo" /\ historyIndex = 0 /\ Len(history) = 3

\* ---- C5 ----
\* C5, as stated: at drag end, a staged position that differs from the position
\* at gesture start commits exactly one entry, the pre-gesture layout with that
\* item's x and y replaced; an equal position commits nothing
C5_DragEndCommitsIffMoved ==
  [][op' = "dragEnd" =>
       LET d == heap[gesture.d]
       IN  IF d.x # gesture.subjX \/ d.y # gesture.subjY
           THEN /\ Len(history') = historyIndex + 2
                /\ SubSeq(history', 1, historyIndex + 1) = SubSeq(history, 1, historyIndex + 1)
                /\ historyIndex' = historyIndex + 1
                /\ LayoutOf(heap', history'[historyIndex' + 1]) =
                     [k \in 1..Len(track.pre) |->
                        IF track.pre[k].id = d.id
                        THEN [track.pre[k] EXCEPT !.x = d.x, !.y = d.y]
                        ELSE track.pre[k]]
           ELSE UNCHANGED <<history, historyIndex>>]_vars

\* ---- C6 ----
\* C6, as stated: except when a project is opened, no event removes or replaces
\* a snapshot at or before the cursor
C6_OnlyOpeningResets ==
  [][op' # "switch" =>
       /\ Len(history') >= historyIndex + 1
       /\ SubSeq(history', 1, historyIndex + 1) = SubSeq(history, 1, historyIndex + 1)
       /\ \A k \in 1..(historyIndex + 1) :
            LayoutOf(heap', history[k]) = LayoutOf(heap, history[k])]_vars

\* ---- C7 ----
\* the item of the current layout that a gesture event or a wall-distance edit acts on
Target ==
  IF op' \in GestureOps THEN (IF gesture.kind # "none" THEN gesture.d ELSE gesture'.d)
  ELSE IF op' = "wallClick" THEN selectedItem
  ELSE IF op' = "confirm" THEN find(heap, items, editModal.selectedId)
  ELSE 0
\* C7, as stated: a drag gesture, a resize gesture and a wall-distance edit of a
\* locked item leave its fields, the snapshots and the cursor unchanged
C7_LockedUntouched ==
  [][(Target # 0 /\ heap[Target].locked) =>
       /\ UNCHANGED <<history, historyIndex>>
       /\ heap'[Target] = heap[Target]]_vars

\* ---- C8 ----
\* C8, as stated: after a drag step on an unlocked item whose effective footprint
\* fits in the room, the staged position keeps the effective footprint in the room
C8_DragStaysInRoom ==
  [][(/\ op' = "drag"
      /\ ~heap[gesture.d].locked
      /\ effectiveWidth(heap[gesture.d]) <= dimensions.width
      /\ effectiveDepth(heap[gesture.d]) <= dimensions.length) =>
       Inside(heap'[gesture.d], dimensions)]_vars

\* ---- C9 ----
MovingEdits == {"dragEnd", "resizeEnd", "confirm", "nudge", "rotate", "size"}
Sibling == IF gesture.items[1] = gesture.d THEN gesture.items[2] ELSE gesture.items[1]
CandidateLeft == RoundTo(gesture'.ex, gridSnap)
SiblingRight == heap[Sibling].x + heap[Sibling].width
\* both unrotated, one sibling, the candidate left edge strictly within the
\* threshold of the sibling's right edge, the clamp not binding
LeftEdgeInReach ==
  /\ op' = "drag"
  /\ Len(gesture.items) = 2
  /\ ~heap[gesture.d].locked
  /\ heap[gesture.d].rotation = 0 /\ heap[Sibling].rotation = 0
  /\ Abs(SiblingRight - CandidateLeft) < SNAP_THRESHOLD
  /\ 0 <= SiblingRight /\ SiblingRight <= dimensions.width - heap[gesture.d].width
\* no other pairing of the two items' left / centre / right is as close
LeftToRightClosest ==
  LET active == keyPoints(CandidateLeft, heap[gesture.d].width)
      targets == keyPoints(heap[Sibling].x, heap[Sibling].width)
  IN  \A i \in 1..3, j \in 1..3 :
         <<i, j>> # <<1, 3>> =>
            Abs(targets[j] - active[i]) > Abs(SiblingRight - CandidateLeft)
SnappedLeftToRight ==
  /\ heap'[gesture.d].x = SiblingRight
  /\ \E g \in 1..Len(guides') :
        guides'[g] = [x1 |-> SiblingRight, y1 |-> 0,
                      x2 |-> SiblingRight, y2 |-> dimensions.length]
\* C10, as stated: whenever the candidate left edge is within the threshold of
\* the sibling's right edge the step stages x at that edge and draws a vertical
\* guide there over the room's length, for every width of the dragged item
C10_LeftEdgeSnaps == [][LeftEdgeInReach => SnappedLeftToRight]_vars
\* C10, amended: the same, when no other pairing of the dragged item's left,
\* centre or right with the sibling's left, centre or right is as close
C10_ClosestPairSnaps == [][(LeftEdgeInReach /\ LeftToRightClosest) => SnappedLeftToRight]_vars
\* the 1.2 m wide item staged against the right edge of its sibling, guide drawn
C10_SnappedWide ==
  /\ op = "drag" /\ gesture.d = 2
  /\ heap[2].width = mm(1200)
  /\ heap[2].x = heap[1].x + heap[1].width
  /\ \E g \in 1..Len(guides) : guides[g].x1 = heap[2].x /\ guides[g].x2 = heap[2].x

\* ---- C11, C12: one drag step, seen from outside the handler ----
Moving == heap[gesture.d]
\* the grid-quantized candidate position of the step
GridX == RoundTo(gesture'.ex, gridSnap)
GridY == RoundTo(gesture'.ey, gridSnap)
\* the places in the layout of the moving item's siblings
SiblingIdx == { k \in 1..Len(gesture.items) : heap[gesture.items[k]].id # Moving.id }
Sib(k) == heap[gesture.items[k]]
\* <<delta, matched coordinate>> of every pairing of a key point of the moving
\* item with a key point of sibling k
PairsX(k) ==
  { << keyPoints(Sib(k).x, effectiveWidth(Sib(k)))[j]
         - keyPoints(GridX, effectiveWidth(Moving))[i],
       keyPoints(Sib(k).x, effectiveWidth(Sib(k)))[j] >> : i \in 1..3, j \in 1..3 }
PairsY(k) ==
  { << keyPoints(Sib(k).y, effectiveDepth(Sib(k)))[j]
         - keyPoints(GridY, effectiveDepth(Moving))[i],
       keyPoints(Sib(k).y, effectiveDepth(Sib(k)))[j] >> : i \in 1..3, j \in 1..3 }
\* the pairings with the smallest absolute delta
Nearest(pairs) == { p \in pairs : \A q \in pairs : Abs(p[1]) <= Abs(q[1]) }
InReach(pairs) == \E p \in pairs : Abs(p[1]) < SNAP_THRESHOLD
\* the first sibling of the layout within the threshold on an axis, 0 when none is
FirstX ==
  IF \E k \in SiblingIdx : InReach(PairsX(k))
  THEN CHOOSE k \in SiblingIdx :
         InReach(PairsX(k)) /\ \A j \in SiblingIdx : j < k => ~InReach(PairsX(j))
  ELSE 0
FirstY ==
  IF \E k \in SiblingIdx : InReach(PairsY(k))
  THEN CHOOSE k \in SiblingIdx :
         InReach(PairsY(k)) /\ \A j \in SiblingIdx : j < k => ~InReach(PairsY(j))
  ELSE 0
VerticalAt(c) == [x1 |-> c, y1 |-> 0, x2 |-> c, y2 |-> dimensions.length]
HorizontalAt(c) == [x1 |-> 0, y1 |-> c, x2 |-> dimensions.width, y2 |-> c]
\* the boundary check of the handler, which follows the snap
StagedX(v) == clamp(v, 0, dimensions.width - boundsWidth(Moving))
StagedY(v) == clamp(v, 0, dimensions.length - boundsDepth(Moving))
GuideSet == { guides'[g] : g \in 1..Len(guides') }
StepOnUnlocked == op' = "drag" /\ ~Moving.locked

\* ---- C11 ----
\* C11: in one drag step, when sibling A is the one within the threshold on X and
\* a different sibling B the one within the threshold on Y, x is the candidate
\* corrected by A's delta and y the candidate corrected by B's delta (each then
\* passed through the boundary check), and exactly two guides are drawn, a
\* vertical one at A's matched coordinate and a horizontal one at B's; a snap on
\* one axis alone leaves the other coordinate at its candidate, with one guide
C11_AxesSnapIndependently ==
  [][StepOnUnlocked =>
       /\ (FirstX # 0 /\ FirstY # 0 /\ FirstX # FirstY) =>
             \E p \in Nearest(PairsX(FirstX)), q \in Nearest(PairsY(FirstY)) :
                /\ heap'[gesture.d].x = StagedX(GridX + p[1])
                /\ heap'[gesture.d].y = StagedY(GridY + q[1])
                /\ Len(guides') = 2
                /\ GuideSet = { VerticalAt(p[2]), HorizontalAt(q[2]) }
       /\ (FirstX # 0 /\ FirstY = 0) =>
             /\ heap'[gesture.d].y = StagedY(GridY)
             /\ Len(guides') = 1 /\ guides'[1].x1 = guides'[1].x2
       /\ (FirstX = 0 /\ FirstY # 0) =>
             /\ heap'[gesture.d].x = StagedX(GridX)
             /\ Len(guides') = 1 /\ guides'[1].y1 = guides'[1].y2]_vars
\* item 2 dragged to the candidate (2.05, 2.65): x is snapped to the right edge
\* of item 1 and y to the bottom edge of the lamp, with the two guides
C11_SnappedToTwoSiblings ==
  /\ op = "drag" /\ gesture.d = 2
  /\ RoundTo(gesture.ex, gridSnap) = mm(2050) /\ RoundTo(gesture.ey, gridSnap) = mm(2650)
  /\ heap[2].x = heap[1].x + heap[1].width
  /\ heap[2].y = heap[3].y + heap[3].depth
  /\ guides = << [x1 |-> mm(2000), y1 |-> 0, x2 |-> mm(2000), y2 |-> dimensions.length],
                 [x1 |-> 0, y1 |-> mm(2575), x2 |-> dimensions.width, y2 |-> mm(2575)] >>

\* ---- C12 ----
\* C12: the snap test is strict.  On each axis, when the smallest absolute delta
\* to every sibling is the threshold or more, the step stages the candidate and
\* draws no guide on that axis; when it is below the threshold for some sibling,
\* the step corrects the candidate by that delta and draws one guide
C12_ThresholdIsStrict ==
  [][StepOnUnlocked =>
       /\ (\A k \in SiblingIdx : \A p \in PairsX(k) : Abs(p[1]) >= SNAP_THRESHOLD) =>
             /\ heap'[gesture.d].x = StagedX(GridX)
             /\ \A g \in GuideSet : g.x1 # g.x2
       /\ (\A k \in SiblingIdx : \A p \in PairsY(k) : Abs(p[1]) >= SNAP_THRESHOLD) =>
             /\ heap'[gesture.d].y = StagedY(GridY)
             /\ \A g \in GuideSet : g.y1 # g.y2
       /\ FirstX # 0 =>
             \E p \in Nearest(PairsX(FirstX)) :
                /\ Abs(p[1]) < SNAP_THRESHOLD
                /\ heap'[gesture.d].x = StagedX(GridX + p[1])
                /\ { g \in GuideSet : g.x1 = g.x2 } = { VerticalAt(p[2]) }
       /\ FirstY # 0 =>
             \E p \in Nearest(PairsY(FirstY)) :
                /\ Abs(p[1]) < SNAP_THRESHOLD
                /\ heap'[gesture.d].y = StagedY(GridY + p[1])
                /\ { g \in GuideSet : g.y1 = g.y2 } = { HorizontalAt(p[2]) }]_vars
\* item 1 dragged to x = 1.05: its right edge is exactly the threshold (0.125 m)
\* left of the lamp's left edge, nothing is nearer, and the step neither moved
\* it off the candidate nor drew a guide
C12_AtThresholdNoSnap ==
  /\ op = "drag" /\ gesture.d = 1
  /\ heap[1].x = RoundTo(gesture.ex, gridSnap)
  /\ heap[3].x - (heap[1].x + heap[1].width) = SNAP_THRESHOLD
  /\ \A k \in {2, 3} : \A i \in 1..3, j \in 1..3 :
        Abs(keyPoints(heap[k].x, effectiveWidth(heap[k]))[j]
              - keyPoints(heap[1].x, heap[1].width)[i]) >= SNAP_THRESHOLD
  /\ guides = <<>>

\* ---- C13 ----
\* C13, as stated: a resize gesture that ends with the staged width and depth
\* equal to the size at gesture start (no step, or steps back to that size)
\* leaves the snapshots and the cursor as they were, redo snapshots included
C13_IdleResizeWritesNothing ==
  [][(/\ op' = "resizeEnd"
      /\ heap[gesture.d].width = gesture.subjX
      /\ heap[gesture.d].depth = gesture.subjY) =>
       UNCHANGED <<history, historyIndex>>]_vars

\* ---- C14 ----
\* the four wall distances of an item, from its stored width and depth
WallDistance(it, dims, w) ==
  CASE w = "top" -> it.y
    [] w = "bottom" -> dims.length - (it.y + it.depth)
    [] w = "left" -> it.x
    [] w = "right" -> dims.width - (it.x + it.width)
\* room extent minus the item's stored extent on the axis of wall w
Slack(it, dims, w) ==
  IF w \in {"left", "right"} THEN dims.width - it.width ELSE dims.length - it.depth
PlaceOf(r) == CHOOSE k \in 1..Len(items) : items[k] = r
\* C14, as stated: for the unlocked selected item, confirming the distance v for
\* wall w commits a layout in which all other items and the item's other
\* coordinate are as they were, and in which the distance to w is v when
\* 0 <= v <= slack, the written coordinate being clamped into [0, slack] otherwise
C14_WallEditSetsDistance ==
  [][\A t \in WallInputs :
       (/\ handleConfirm(t)
        /\ editModal.wall \in {"top", "bottom", "left", "right"}
        /\ ~isNaN(parseFloat(t)) /\ parseFloat(t).val >= 0
        /\ Target # 0 /\ ~heap[Target].locked
        /\ Slack(heap[Target], dimensions, editModal.wall) >= 0) =>
         LET v == mm(parseFloat(t).val)
             w == editModal.wall
             old == heap[Target]
             k == PlaceOf(Target)
             new == LayoutOf(heap', history'[historyIndex' + 1])
         IN  /\ Len(new) = Len(current)
             /\ \A j \in 1..Len(new) : j # k => new[j] = current[j]
             /\ [new[k] EXCEPT !.x = old.x, !.y = old.y] = old
             /\ IF w \in {"left", "right"} THEN new[k].y = old.y ELSE new[k].x = old.x
             /\ IF v <= Slack(old, dimensions, w)
                THEN WallDistance(new[k], dimensions', w) = v
                ELSE /\ 0 <= (IF w \in {"left", "right"} THEN new[k].x ELSE new[k].y)
                     /\ (IF w \in {"left", "right"} THEN new[k].x ELSE new[k].y)
                          <= Slack(old, dimensions, w)]_vars

\* ---- C15 ----
\* a text that is empty, negative or not a number
Invalid(t) == t = <<>> \/ t[1] = "-" \/ \E k \in 1..Len(t) : ~IsDigit(t[k])
\* the handlers of the edit fields, given the text t
FieldHandler(t) ==
  \/ handleConfirm(t)
  \/ \E f \in {"width", "length"} : handleDimChange(t, f)
  \/ \E f \in {"width", "depth"} : handleItemDimChange(f, t)
  \/ rotationChange(t)
  \/ rotationBlur(t)
\* C15, as stated: an empty, negative or non-numeric text in the wall-distance or
\* room-dimension dialog, in the room width / length fields or in the item width,
\* depth and rotation fields (on change and on blur) changes neither the room nor
\* any item and appends no history entry
C15_InvalidInputIgnored ==
  [][\A t \in FieldTexts \cup RotationInputs :
       (Invalid(t) /\ FieldHandler(t)) =>
          /\ UNCHANGED <<dimensions, history, historyIndex>>
          /\ \A k \in 1..Len(history) :
                LayoutOf(heap', history[k]) = LayoutOf(heap, history[k])]_vars

\* ---- C16 ----
\* C16, as stated: in every snapshot reached through adding presets, resize
\* gestures and width / depth edits in the sidebar, every item has width > 0 and
\* depth > 0
C16_SizesPositive ==
  \A k \in 1..Len(history) : \A j \in 1..Len(history[k]) :
     heap[history[k][j]].width > 0 /\ heap[history[k][j]].depth > 0

\* ---- C17 ----
\* C17, as stated: after any sequence of room-dimension edits, through the fields
\* of the sidebar and through the dimension labels of the canvas, the room's
\* width and length are positive
C17_RoomPositive == dimensions.width > 0 /\ dimensions.length > 0

\* ---- C18 ----
\* the result v of clamping on an axis where the room measures room and the
\* footprint handed to the clamp measures f
Total(v, room, f) == IF f <= room THEN 0 <= v /\ v <= room - f ELSE v = 0
\* C18: the boundary clamp of a drag step and of a wall-distance edit is total.
\* With the footprint the handler hands to it, the resulting coordinate lies in
\* [0, room extent - footprint] when the footprint fits on that axis, and is 0
\* when the footprint is larger than the room
C18_ClampIsTotal ==
  [][/\ StepOnUnlocked =>
          /\ Total(heap'[gesture.d].x, dimensions.width, boundsWidth(Moving))
          /\ Total(heap'[gesture.d].y, dimensions.length, boundsDepth(Moving))
     /\ (op' = "confirm" /\ Committed) =>
          /\ Total(heap'[Len(heap')].x, editModal.dimensions.width,
                   heap[editModal.selectedItem].width)
          /\ Total(heap'[Len(heap')].y, editModal.dimensions.length,
                   heap[editModal.selectedItem].depth)]_vars
\* the 1 x 1 m item at (0, 0) of the 3 x 3 m room, dragged by (-0.5, -0.5), is
\* staged at (0, 0)
C18_CornerStays ==
  /\ op = "drag" /\ gesture.d = 1
  /\ dimensions = [width |-> mm(3000), length |-> mm(3000)]
  /\ gesture.subjX = 0 /\ gesture.subjY = 0
  /\ gesture.ex = 0 - mm(500) /\ gesture.ey = 0 - mm(500)
  /\ heap[1].width = mm(1000) /\ heap[1].depth = mm(1000)
  /\ heap[1].x = 0 /\ heap[1].y = 0

\* ---- C19 ----
\* candidate coordinates from 1 m outside the room to 1 m beyond its far wall
Positions == { mm(125) * k : k \in (0 - 8)..48 }
Idempotent(room, f) ==
  \A v \in Positions :
     clamp(clamp(v, 0, room - f), 0, room - f) = clamp(v, 0, room - f)
\* C19: clamping is idempotent.  For the room and every item of the layout whose
\* stored footprint is no larger than the room, clamping a clamped position
\* gives the clamped position
C19_ClampIdempotent ==
  \A k \in 1..Len(current) :
     /\ current[k].width <= dimensions.width =>
           Idempotent(dimensions.width, current[k].width)
     /\ current[k].depth <= dimensions.length =>
           Idempotent(dimensions.length, current[k].depth)
\* a drag step whose pointer went beyond the far corner of the 3 x 3 m room
\* staged the 1 x 1 m item at the clamp's upper bounds
C19_StagedAtFarCorner ==
  /\ op = "drag" /\ gesture.d = 1
  /\ gesture.ex > dimensions.width - heap[1].width
  /\ gesture.ey > dimensions.length - heap[1].depth
  /\ heap[1].x = dimensions.width - heap[1].width
  /\ heap[1].y = dimensions.length - heap[1].depth

\* ---- C20 ----
InGestureOps == {"dragStart", "resizeStart", "drag", "resize"}
\* C20, as stated: at the start of a gesture and on its steps no callback is
\* invoked: the snapshots and cursor (onItemsChange), the room
\* (onDimensionsChange) and the selection (onSelect) stay as they are
C20_NoCallbackInGesture ==
  [][op' \in InGestureOps =>
       UNCHANGED <<history, historyIndex, dimensions, selectedId>>]_vars
\* C20, amended: at the start of a gesture and on its steps onItemsChange and
\* onDimensionsChange are not invoked; the selection callback is invoked at the
\* start of a drag, with the id of the dragged item, and at no step nor at the
\* start of a resize
C20_OnlySelectionAtDragStart ==
  [][op' \in InGestureOps =>
       /\ UNCHANGED <<history, historyIndex, dimensions>>
       /\ IF op' = "dragStart" THEN selectedId' = heap[gesture'.d].id
          ELSE UNCHANGED selectedId]_vars
\* the second step of a drag that began on an item that was not selected: the
\* item is selected and has moved, and nothing was committed
C20_DraggingNewSelection ==
  /\ op = "drag" /\ gesture.steps = 2
  /\ selectedId = heap[gesture.d].id
  /\ heap[gesture.d].x # gesture.subjX
  /\ history = gesture.history /\ historyIndex = gesture.historyIndex
  /\ nGestures = 1

\* ---- C21 ----
\* the committed layout differs from the layout lay at most in field x or y of item k
SameButPosition(new, lay, k) ==
  /\ Len(new) = Len(lay)
  /\ \A j \in 1..Len(lay) : j # k => new[j] = lay[j]
  /\ [new[k] EXCEPT !.x = lay[k].x, !.y = lay[k].y] = lay[k]
\* C21, as stated: a press of an arrow key with an unlocked item selected commits
\* exactly one snapshot after the snapshots up to the cursor; in it only that
\* item's x (Left / Right) or y (Up / Down) changed, by at most the step, and
\* 0 <= x <= room.width - width and 0 <= y <= room.length - depth; with no
\* selection or a locked selected item, snapshots and cursor stay as they are
C21_NudgeCommitsInside ==
  [][\A key \in ArrowKeys :
       handleKeyDown(key[1], key[2]) =>
         IF selectedItem = 0 \/ heap[selectedItem].locked
         THEN UNCHANGED <<history, historyIndex>> /\ heap' = heap
         ELSE LET old == heap[selectedItem]
                  k == PlaceOf(selectedItem)
                  new == LayoutOf(heap', history'[historyIndex' + 1])
                  step == IF key[2] THEN mm(100) ELSE mm(10)
              IN  /\ Len(history') = historyIndex + 2
                  /\ historyIndex' = historyIndex + 1
                  /\ SubSeq(history', 1, historyIndex + 1) = SubSeq(history, 1, historyIndex + 1)
                  /\ \A j \in 1..(historyIndex + 1) :
                        LayoutOf(heap', history[j]) = LayoutOf(heap, history[j])
                  /\ SameButPosition(new, current, k)
                  /\ IF key[1] \in {"ArrowLeft", "ArrowRight"}
                     THEN new[k].y = old.y /\ Abs(new[k].x - old.x) <= step
                     ELSE new[k].x = old.x /\ Abs(new[k].y - old.y) <= step
                  /\ 0 <= new[k].x /\ new[k].x <= dimensions.width - old.width
                  /\ 0 <= new[k].y /\ new[k].y <= dimensions.length - old.depth]_vars

\* ---- C22 ----
\* the n-th pairing (n = 0..8) of the double loop over the moving item's key
\* points ks and the sibling's key points ts: moving key point outer, sibling inner
PairAt(ks, ts, n) ==
  [delta |-> ts[(n % 3) + 1] - ks[(n \div 3) + 1], snapPos |-> ts[(n % 3) + 1]]
\* the first pairing whose absolute delta no pairing undercuts
FirstNearest(ks, ts) ==
  PairAt(ks, ts,
         CHOOSE n \in 0..8 :
           /\ \A m \in 0..8 : Abs(PairAt(ks, ts, n).delta) <= Abs(PairAt(ks, ts, m).delta)
           /\ \A m \in 0..(n - 1) :
                 Abs(PairAt(ks, ts, m).delta) > Abs(PairAt(ks, ts, n).delta))
FirstNearestX(k) ==
  FirstNearest(keyPoints(GridX, effectiveWidth(Moving)),
               keyPoints(Sib(k).x, effectiveWidth(Sib(k))))
FirstNearestY(k) ==
  FirstNearest(keyPoints(GridY, effectiveDepth(Moving)),
               keyPoints(Sib(k).y, effectiveDepth(Sib(k))))
\* the places of the vertical and of the horizontal guides among the guides drawn
VerticalGuides == { g \in 1..Len(guides') : guides'[g].x1 = guides'[g].x2 }
HorizontalGuides == { g \in 1..Len(guides') : guides'[g].y1 = guides'[g].y2 }
\* C22: on each axis a drag step snaps to the first sibling of the list (the
\* moving item left out) that has a key-point delta strictly below the
\* threshold, by the first of that sibling's pairings with the smallest absolute
\* delta, whatever later siblings are nearer; it draws one guide at that pairing's
\* coordinate, so at most one vertical and one horizontal guide; with no sibling
\* in reach the axis keeps its candidate and has no guide
C22_FirstSiblingWins ==
  [][StepOnUnlocked =>
       /\ Cardinality(VerticalGuides) <= 1 /\ Cardinality(HorizontalGuides) <= 1
       /\ Len(guides') = Cardinality(VerticalGuides) + Cardinality(HorizontalGuides)
       /\ IF FirstX # 0
          THEN /\ heap'[gesture.d].x = StagedX(GridX + FirstNearestX(FirstX).delta)
               /\ \E g \in VerticalGuides :
                     guides'[g] = VerticalAt(FirstNearestX(FirstX).snapPos)
          ELSE heap'[gesture.d].x = StagedX(GridX) /\ VerticalGuides = {}
       /\ IF FirstY # 0
          THEN /\ heap'[gesture.d].y = StagedY(GridY + FirstNearestY(FirstY).delta)
               /\ \E g \in HorizontalGuides :
                     guides'[g] = HorizontalAt(FirstNearestY(FirstY).snapPos)
          ELSE heap'[gesture.d].y = StagedY(GridY) /\ HorizontalGuides = {}]_vars
\* item 2 dragged to the candidate x = 2.1: its left edge is 0.1 m from the right
\* edge of item 1 and 0.075 m from the left edge of the lamp, which comes later in
\* the list; it is staged against item 1, with the one guide there
C22_LaterNearerIgnored ==
  /\ op = "drag" /\ gesture.d = 2
  /\ gesture.items = <<1, 2, 3>>
  /\ RoundTo(gesture.ex, gridSnap) = mm(2100)
  /\ Abs(heap[3].x - mm(2100)) < Abs(heap[1].x + heap[1].width - mm(2100))
  /\ heap[2].x = heap[1].x + heap[1].width
  /\ guides = << [x1 |-> mm(2000), y1 |-> 0, x2 |-> mm(2000), y2 |-> dimensions.length] >>

\* ---- C23 ----
\* the multiples of the grid unit on either side of v, and those nearest to v
GridPoints(v) == { gridSnap * (v \div gridSnap), gridSnap * (v \div gridSnap) + gridSnap }
NearestGrid(v) == { q \in GridPoints(v) : 2 * Abs(q - v) <= gridSnap }
\* with the moving item's key points taken at q: the first sibling in reach on an
\* axis (0 when none is) and the correction it gives
FirstFromX(q) ==
  LET reach(k) == \E i \in 1..3, j \in 1..3 :
                     Abs(keyPoints(Sib(k).x, effectiveWidth(Sib(k)))[j]
                           - keyPoints(q, effectiveWidth(Moving))[i]) < SNAP_THRESHOLD
  IN  IF \E k \in SiblingIdx : reach(k)
      THEN CHOOSE k \in SiblingIdx : reach(k) /\ \A j \in SiblingIdx : j < k => ~reach(j)
      ELSE 0
FirstFromY(q) ==
  LET reach(k) == \E i \in 1..3, j \in 1..3 :
                     Abs(keyPoints(Sib(k).y, effectiveDepth(Sib(k)))[j]
                           - keyPoints(q, effectiveDepth(Moving))[i]) < SNAP_THRESHOLD
  IN  IF \E k \in SiblingIdx : reach(k)
      THEN CHOOSE k \in SiblingIdx : reach(k) /\ \A j \in SiblingIdx : j < k => ~reach(j)
      ELSE 0
DeltaFromX(q) ==
  IF FirstFromX(q) = 0 THEN 0
  ELSE FirstNearest(keyPoints(q, effectiveWidth(Moving)),
                    keyPoints(Sib(FirstFromX(q)).x, effectiveWidth(Sib(FirstFromX(q))))).delta
DeltaFromY(q) ==
  IF FirstFromY(q) = 0 THEN 0
  ELSE FirstNearest(keyPoints(q, effectiveDepth(Moving)),
                    keyPoints(Sib(FirstFromY(q)).y, effectiveDepth(Sib(FirstFromY(q))))).delta
\* C23: grid quantization precedes the object snap.  On each axis of a drag step
\* there is a multiple q of the grid unit nearest to the pointer's candidate such
\* that, with the key points taken at q, the staged coordinate is q when no
\* sibling is in reach and q plus the snap delta when one is (the boundary check
\* then leaves a coordinate inside the room as it is)
C23_GridBeforeSnap ==
  [][StepOnUnlocked =>
       /\ \E q \in NearestGrid(gesture'.ex) :
             /\ FirstFromX(q) = 0 => heap'[gesture.d].x = StagedX(q)
             /\ FirstFromX(q) # 0 => heap'[gesture.d].x = StagedX(q + DeltaFromX(q))
             /\ (FirstFromX(q) # 0) = (VerticalGuides # {})
       /\ \E q \in NearestGrid(gesture'.ey) :
             /\ FirstFromY(q) = 0 => heap'[gesture.d].y = StagedY(q)
             /\ FirstFromY(q) # 0 => heap'[gesture.d].y = StagedY(q + DeltaFromY(q))
             /\ (FirstFromY(q) # 0) = (HorizontalGuides # {})]_vars
\* item 1 dragged by 5 px: the pointer's candidate 1.0625 would put its right edge
\* within the threshold of the lamp's left edge, the quantized candidate 1.05
\* puts it exactly at the threshold; the item is staged at 1.05 without a guide
C23_QuantizedOutOfReach ==
  /\ op = "drag" /\ gesture.d = 1
  /\ gesture.ex = mm(1000) + px(5)
  /\ Abs(heap[3].x - (gesture.ex + heap[1].width)) < SNAP_THRESHOLD
  /\ heap[3].x - (mm(1050) + heap[1].width) = SNAP_THRESHOLD
  /\ heap[1].x = mm(1050)
  /\ guides = <<>>

\* ---- C24 ----
\* the guides a drag step computes: one at the matched coordinate of the first
\* sibling in reach on each axis
GuidesOfStep ==
  (IF FirstX # 0 THEN { VerticalAt(FirstNearestX(FirstX).snapPos) } ELSE {})
    \cup (IF FirstY # 0 THEN { HorizontalAt(FirstNearestY(FirstY).snapPos) } ELSE {})
NoStaleGuides ==
  /\ StepOnUnlocked => GuideSet = GuidesOfStep /\ Len(guides') = Cardinality(GuidesOfStep)
  /\ op' = "dragEnd" => guides' = <<>>
\* C24: while no drag gesture is active there is no guide; a drag end leaves no
\* guide, and after a drag step on an unlocked item the guides are exactly those
\* computed in that step
C24_GuidesOnlyWhileDragging ==
  [](gesture.kind # "drag" => guides = <<>>) /\ [][NoStaleGuides]_vars
\* a drag has ended with item 2 snapped against the right edge of item 1, and no
\* guide is left
C24_SnappedDragEnded ==
  /\ op = "dragEnd" /\ gesture.kind = "none"
  /\ current[2].x = current[1].x + current[1].width
  /\ current[2].x # mm(2500)
  /\ guides = <<>>

\* ---- C25 ----
DragControllerStep ==
  /\ gesture'.kind # gesture.kind => op' \in {"dragStart", "dragEnd", "resizeStart", "resizeEnd"}
  /\ op' = "dragStart" =>
        /\ gesture.kind = "none" /\ gesture'.kind = "drag"
        /\ selectedId' = heap[gesture'.d].id
        /\ heap' = heap
  /\ op' = "drag" =>
        /\ gesture.kind = "drag" /\ gesture'.kind = "drag" /\ gesture'.d = gesture.d
        /\ selectedId' = heap[gesture.d].id
  /\ op' = "dragEnd" =>
        /\ gesture.kind = "drag" /\ gesture'.kind = "none"
        /\ selectedId' = heap[gesture.d].id
  /\ (op' \in {"drag", "dragEnd"} /\ heap[gesture.d].locked) =>
        /\ heap' = heap
        /\ heap[gesture.d].x = gesture.subjX /\ heap[gesture.d].y = gesture.subjY
        /\ UNCHANGED <<history, historyIndex>>
  /\ op' = "resizeStart" =>
        /\ gesture.kind = "none" /\ gesture'.kind = "resize"
        /\ UNCHANGED <<selectedId, heap, history, historyIndex>>
  /\ op' = "resize" => gesture'.kind = "resize" /\ UNCHANGED selectedId
\* C25: the drag controller goes from idle to dragging at a drag start and back
\* to idle at the drag end; from the start to the end of the drag the dragged item
\* is the selection, moved or not, locked or not; a locked item keeps its
\* position through all of the gesture and nothing is committed for it; a resize
\* start on the handle begins a resize, not a drag, and selects nothing
C25_DragSelectsAndLockFreezes == [][DragControllerStep]_vars
\* the second step of a drag of the locked item 2, which was not selected before:
\* the pointer has moved, the item is selected and stands where it stood
C25_LockedDragged ==
  /\ op = "drag" /\ gesture.kind = "drag" /\ gesture.steps = 2
  /\ gesture.d = 2 /\ heap[2].locked
  /\ nGestures = 1
  /\ selectedId = 2
  /\ gesture.ex # gesture.subjX
  /\ heap[2].x = gesture.subjX /\ heap[2].y = gesture.subjY
  /\ history = gesture.history

\* ---- C26 ----
\* C26: a resize step on an unlocked item stages, for each dimension on its own,
\* the multiple of the grid unit nearest to the pointer's coordinate floored at
\* 0.1 m, so a width and a depth of at least 0.1 m on the grid wherever the
\* pointer is; x, y, rotation and every other item stay as they are, and the
\* size is not cut to the room
C26_ResizeStepFloorsAndRounds ==
  [][(op' = "resize" /\ ~heap[gesture.d].locked) =>
       LET d == heap'[gesture.d]
       IN  /\ d.width >= minSize /\ d.width % gridSnap = 0
           /\ d.depth >= minSize /\ d.depth % gridSnap = 0
           /\ d.width \in NearestGrid(Max(minSize, gesture'.ex))
           /\ d.depth \in NearestGrid(Max(minSize, gesture'.ey))
           /\ [d EXCEPT !.width = heap[gesture.d].width,
                        !.depth = heap[gesture.d].depth] = heap[gesture.d]
           /\ \A r \in 1..Len(heap) : r # gesture.d => heap'[r] = heap[r]
           /\ Len(heap') = Len(heap)]_vars
\* a resize step of item 2 with the pointer 0.0375 m right of and far above the
\* handle's start: the width is rounded to the grid, the depth is the minimum,
\* and the item stands where it stood
C26_PointerAboveRoom ==
  /\ op = "resize" /\ gesture.d = 2 /\ ~heap[2].locked
  /\ gesture.ex = gesture.subjX + px(3) /\ gesture.ey < 0
  /\ heap[2].width = RoundTo(gesture.ex, gridSnap) /\ heap[2].width # gesture.ex
  /\ heap[2].depth = minSize
  /\ heap[2].x = mm(2500) /\ heap[2].y = mm(2800)

\* ---- C27 ----
\* C27, as stated: a rename while an auto-save is pending leaves the current
\* layout in memory as it is, and when the auto-save fires the stored projects
\* keep their names, the stored layout of the open project is the current
\* layout, and the current layout in memory stays as it is
C27_NoLostWrites ==
  [][/\ (op' = "rename" /\ saveTimer.pending) =>
          /\ LayoutOf(heap', history'[historyIndex' + 1]) = current
          /\ currentProjectOf(projects', currentProjectId').name # 
               currentProjectOf(projects, currentProjectId).name
     /\ op' = "autosave" =>
          /\ Len(projects') = Len(projects)
          /\ \A k \in 1..Len(projects) : projects'[k].name = projects[k].name
          /\ LayoutOf(heap', currentProjectOf(projects', currentProjectId').items) = current
          /\ LayoutOf(heap', history'[historyIndex' + 1]) = current]_vars

\* ---- C28 ----
\* C28, as stated: a confirmed wall-distance edit commits, after the snapshots up
\* to the cursor, a layout that differs from the layout current at the
\* confirmation at most in x and y of the edited item, and not at all when that
\* item is locked at the confirmation
C28_ConfirmKeepsLaterChanges ==
  [][(op' = "confirm" /\ Committed /\ Target # 0) =>
       LET new == LayoutOf(heap', history'[historyIndex' + 1])
           k == PlaceOf(Target)
       IN  /\ SameButPosition(new, current, k)
           /\ heap[Target].locked => new[k] = current[k]
           /\ Len(history') = historyIndex + 2
           /\ SubSeq(history', 1, historyIndex + 1) = SubSeq(history, 1, historyIndex + 1)]_vars

\* ---- C29 ----
\* C29, as stated: after a drag step on an unlocked item every guide drawn passes
\* through a key point of the staged item: a vertical guide through the left
\* edge, centre or right edge of its effective footprint at the staged x, a
\* horizontal guide through the top edge, centre or bottom edge at the staged y
C29_GuidesMarkAlignment ==
  [][StepOnUnlocked =>
       LET d == heap'[gesture.d]
       IN  \A g \in 1..Len(guides') :
              IF guides'[g].x1 = guides'[g].x2
              THEN \E i \in 1..3 : keyPoints(d.x, effectiveWidth(d))[i] = guides'[g].x1
              ELSE \E i \in 1..3 : keyPoints(d.y, effectiveDepth(d))[i] = guides'[g].y1]_vars

\* C30: whenever the selection id is not none, an item with that id exists in
\* the current layout snapshots[cursor]
C30_SelectionExists == selectedId # 0 => find(heap, items, selectedId) # 0

====
